---- MODULE Spec2Model ----
(***************************************************************************)
(* DepthPass / NormalPass of the post-processing library.  The two classes *)
(* have the same constructor, getResolutionScale, setResolutionScale,      *)
(* render and setSize; they differ in the override material, the clear     *)
(* colour and the pixel format, which no size or routing logic reads.      *)
(* One model covers both.                                                  *)
(*                                                                         *)
(* Numbers.  A resolution scale is a fraction num/den whose denominator is *)
(* a power of two, so that the double the program holds is exactly num/den *)
(* and width * scale is exact; Math.floor of it is floor division.         *)
(***************************************************************************)
EXTENDS Integers, FiniteSets

VARIABLES
    needsSwap,        \* this.needsSwap
    renderToScreen,   \* this.renderToScreen (field of the Pass base class)
    renderTarget,     \* this.renderTarget: its width and height
    resolution,       \* this.resolution: Vector2 (x, y)
    resolutionScale,  \* this.resolutionScale
    surfaces,         \* per drawing surface, the frame that last drew into it
    frame,            \* number of render calls made so far
    options,          \* the options object the pass was constructed with
    lastCall,         \* name of the most recent call on the pass
    lastSetSize,      \* arguments of the most recent external setSize call
    givenScale,       \* scale most recently given by the caller
    resized,          \* setSize or setResolutionScale has been called
    repeated,         \* the most recent call repeated the setSize call before it
    returned,         \* return value of the most recent call
    lastEffect,       \* surfaces the most recent call wrote and read
    threw             \* the most recent call raised an exception

vars == <<needsSwap, renderToScreen, renderTarget, resolution, resolutionScale,
          surfaces, frame, options, lastCall, lastSetSize, givenScale,
          resized, repeated, returned, lastEffect, threw>>

----------------------------------------------------------------------------
(* Bounds of the model *)

MaxSmallDim == 2
MaxScaleNum == 2
MaxFrames == 2

(* JavaScript's undefined and null *)
Undefined == [undefined |-> TRUE]
Null == "null"

(* Scales the caller may pass: negative, zero and positive, below and above 1 *)
ScaleDens == {2, 4}
Scales == {[num |-> n, den |-> d] : n \in (-1)..MaxScaleNum, d \in ScaleDens}

(* Viewport sizes the caller may pass to setSize: positive integers *)
Sizes ==
    {[width |-> w, height |-> h] : w \in 1..MaxSmallDim, h \in 1..MaxSmallDim}
    \cup {[width |-> 800, height |-> 600], [width |-> 1920, height |-> 1080]}

(* Render targets the caller may inject through options.renderTarget *)
InjectedTargets == {[width |-> 1, height |-> 1], [width |-> 512, height |-> 256]}

Options ==
    [resolutionScale : Scales \cup {Undefined},
     renderTarget : InjectedTargets \cup {Undefined}]

(* What super("DepthPass") leaves in the fields of the base class *)
PassBases == [needsSwap : BOOLEAN, renderToScreen : BOOLEAN]

(* The surfaces a render call could touch *)
Surfaces == {"screen", "renderTarget", "inputBuffer", "outputBuffer"}

----------------------------------------------------------------------------
(* JavaScript and three.js primitives the methods call *)

MathMax(a, b) == IF a >= b THEN a ELSE b

\* Math.floor(n * scale)
MathFloorScaled(n, scale) == (n * scale.num) \div scale.den

\* new WebGLRenderTarget(width, height, ...)
WebGLRenderTarget(width, height) == [width |-> width, height |-> height]

\* new Vector2()
Vector2 == [x |-> 0, y |-> 0]

----------------------------------------------------------------------------
(* The methods, as functions of the pass object *)

This ==
    [needsSwap |-> needsSwap, renderToScreen |-> renderToScreen,
     renderTarget |-> renderTarget, resolution |-> resolution,
     resolutionScale |-> resolutionScale]

constructor_keepsBaseSwap(options_, base) ==
    [needsSwap |-> base.needsSwap,
     renderToScreen |-> base.renderToScreen,
     renderTarget |->
        IF options_.renderTarget = Undefined
        THEN WebGLRenderTarget(1, 1)
        ELSE options_.renderTarget,
     resolution |-> Vector2,
     resolutionScale |->
        IF options_.resolutionScale # Undefined
        THEN options_.resolutionScale
        ELSE [num |-> 1, den |-> 2]]

constructor_defaultOne(options_, base) ==
    [needsSwap |-> FALSE,
     renderToScreen |-> base.renderToScreen,
     renderTarget |->
        IF options_.renderTarget = Undefined
        THEN WebGLRenderTarget(1, 1)
        ELSE options_.renderTarget,
     resolution |-> Vector2,
     resolutionScale |->
        IF options_.resolutionScale # Undefined
        THEN options_.resolutionScale
        ELSE [num |-> 2, den |-> 2]]

constructor(options_, base) ==
    [needsSwap |-> FALSE,
     renderToScreen |-> base.renderToScreen,
     renderTarget |->
        IF options_.renderTarget = Undefined
        THEN WebGLRenderTarget(1, 1)
        ELSE options_.renderTarget,
     resolution |-> Vector2,
     resolutionScale |->
        IF options_.resolutionScale # Undefined
        THEN options_.resolutionScale
        ELSE [num |-> 1, den |-> 2]]

getResolutionScale(this) == this.resolutionScale

setSize_noClamp(this, width, height) ==
    [this EXCEPT
        !.resolution = [x |-> width, y |-> height],
        !.renderTarget =
            [width |-> MathFloorScaled(width, this.resolutionScale),
             height |-> MathFloorScaled(height, this.resolutionScale)]]

setSize_fromTarget(this, width, height) ==
    [this EXCEPT
        !.resolution = [x |-> width, y |-> height],
        !.renderTarget =
            [width |-> MathMax(1, MathFloorScaled(this.renderTarget.width,
                                                  this.resolutionScale)),
             height |-> MathMax(1, MathFloorScaled(this.renderTarget.height,
                                                   this.resolutionScale))]]

setSize(this, width, height) ==
    [this EXCEPT
        !.resolution = [x |-> width, y |-> height],
        !.renderTarget =
            [width |-> MathMax(1, MathFloorScaled(width, this.resolutionScale)),
             height |-> MathMax(1, MathFloorScaled(height, this.resolutionScale))]]

setResolutionScale_noResize(this, scale) ==
    [this EXCEPT !.resolutionScale = scale]

setResolutionScale_scaledBase(this, scale) ==
    setSize([this EXCEPT !.resolutionScale = scale],
            this.renderTarget.width, this.renderTarget.height)

setResolutionScale(this, scale) ==
    setSize([this EXCEPT !.resolutionScale = scale],
            this.resolution.x, this.resolution.y)

\* this.renderPass.render(renderer, inputBuffer, outputBuffer): the surfaces
\* the scene is drawn into; a null target is the display surface.
RenderPassRender(colorTarget, depthTarget) ==
    {IF t = Null THEN "screen" ELSE t : t \in {colorTarget, depthTarget}}

render_intoOutputBuffer(this, inputBuffer, outputBuffer) ==
    LET target == IF this.renderToScreen THEN Null ELSE "renderTarget"
    IN  [written |-> RenderPassRender(target, outputBuffer), read |-> {}]

\* render(renderer, inputBuffer, outputBuffer, delta, stencilTest): the
\* surfaces written and the pipeline buffers read.
render(this, inputBuffer, outputBuffer) ==
    LET target == IF this.renderToScreen THEN Null ELSE "renderTarget"
    IN  [written |-> RenderPassRender(target, target), read |-> {}]

----------------------------------------------------------------------------
(* The state machine: the caller's calls on one pass *)

\* A call that draws nothing and reads no buffer
NoEffect == [written |-> {}, read |-> {}]

Assign(this) ==
    /\ needsSwap' = this.needsSwap
    /\ renderToScreen' = this.renderToScreen
    /\ renderTarget' = this.renderTarget
    /\ resolution' = this.resolution
    /\ resolutionScale' = this.resolutionScale

Init ==
    \E o \in Options, base \in PassBases :
        LET this == constructor(o, base) IN
        /\ needsSwap = this.needsSwap
        /\ renderToScreen = this.renderToScreen
        /\ renderTarget = this.renderTarget
        /\ resolution = this.resolution
        /\ resolutionScale = this.resolutionScale
        /\ surfaces = [s \in Surfaces |-> 0]
        /\ frame = 0
        /\ options = o
        /\ lastCall = "constructor"
        /\ lastSetSize = [width |-> 0, height |-> 0]
        /\ givenScale = o.resolutionScale
        /\ resized = FALSE
        /\ repeated = FALSE
        /\ returned = Undefined
        /\ lastEffect = NoEffect
        /\ threw = FALSE

GetResolutionScale ==
    /\ returned' = getResolutionScale(This)
    /\ repeated' = FALSE
    /\ lastCall' = "getResolutionScale"
    /\ threw' = FALSE
    /\ lastEffect' = NoEffect
    /\ UNCHANGED <<needsSwap, renderToScreen, renderTarget, resolution,
                   resolutionScale, surfaces, frame, options, lastSetSize,
                   givenScale, resized>>

SetResolutionScale ==
    \E scale \in Scales :
        /\ Assign(setResolutionScale(This, scale))
        /\ givenScale' = scale
        /\ resized' = TRUE
        /\ repeated' = FALSE
        /\ lastCall' = "setResolutionScale"
        /\ returned' = Undefined
        /\ threw' = FALSE
        /\ lastEffect' = NoEffect
        /\ UNCHANGED <<surfaces, frame, options, lastSetSize>>

SetSize ==
    \E size \in Sizes :
        /\ Assign(setSize(This, size.width, size.height))
        /\ lastSetSize' = size
        /\ repeated' = (lastCall = "setSize" /\ lastSetSize = size)
        /\ resized' = TRUE
        /\ lastCall' = "setSize"
        /\ returned' = Undefined
        /\ threw' = FALSE
        /\ lastEffect' = NoEffect
        /\ UNCHANGED <<surfaces, frame, options, givenScale>>

Render ==
    /\ frame < MaxFrames
    /\ LET effect == render(This, "inputBuffer", "outputBuffer") IN
        /\ frame' = frame + 1
        /\ surfaces' = [s \in Surfaces |->
                            IF s \in effect.written THEN frame + 1 ELSE surfaces[s]]
        /\ lastEffect' = effect
    /\ returned' = Undefined
    /\ lastCall' = "render"
    /\ repeated' = FALSE
    /\ threw' = FALSE
    /\ UNCHANGED <<needsSwap, renderToScreen, renderTarget, resolution,
                   resolutionScale, options, lastSetSize, givenScale, resized>>

\* The scheduler sets pass.renderToScreen
SetRenderToScreen ==
    \E b \in BOOLEAN :
        /\ renderToScreen' = b
        /\ lastCall' = "renderToScreen"
        /\ repeated' = FALSE
        /\ returned' = Undefined
        /\ threw' = FALSE
        /\ lastEffect' = NoEffect
        /\ UNCHANGED <<needsSwap, renderTarget, resolution, resolutionScale,
                       surfaces, frame, options, lastSetSize, givenScale, resized>>

Next ==
    \/ GetResolutionScale
    \/ SetResolutionScale
    \/ SetSize
    \/ Render
    \/ SetRenderToScreen

Spec == Init /\ [][Next]_vars

----------------------------------------------------------------------------
(* Properties *)

\* d is max(1, floor(n * scale)), stated by the inequalities that define the
\* floor instead of by division
IsClampedFloor(d, n, scale) ==
    IF n * scale.num < scale.den
    THEN d = 1
    ELSE d * scale.den <= n * scale.num /\ n * scale.num < (d + 1) * scale.den

Positive(scale) == scale.num > 0

\* The scale the pass was given last: by setResolutionScale, else by the
\* constructor's options, else the default of one half
IsGivenScale(scale) ==
    IF givenScale = Undefined
    THEN scale.num * 2 = scale.den
    ELSE scale = givenScale

\* C1: right after setSize(width, height) on a pass whose scale s is
\* positive, the render target is max(1, floor(width * s)) wide and
\* max(1, floor(height * s)) high.
C1_SetSizeDimensions ==
    (lastCall = "setSize" /\ Positive(resolutionScale)) =>
        /\ IsClampedFloor(renderTarget.width, lastSetSize.width, resolutionScale)
        /\ IsClampedFloor(renderTarget.height, lastSetSize.height, resolutionScale)

\* setSize(1, 1) at scale 0.5: the floor is 0 and the target is 1 x 1
C1_Witness ==
    /\ lastCall = "setSize"
    /\ lastSetSize = [width |-> 1, height |-> 1]
    /\ resolutionScale = [num |-> 1, den |-> 2]
    /\ renderTarget = [width |-> 1, height |-> 1]

\* C2 as stated: in every state of a constructed pass, whether its target
\* was created or injected, each axis of the render target is
\* max(1, floor(baseResolution.dim * resolutionScale)).
C2_SizingInvariantAlways ==
    /\ IsClampedFloor(renderTarget.width, resolution.x, resolutionScale)
    /\ IsClampedFloor(renderTarget.height, resolution.y, resolutionScale)

\* C2 amended: the sizing rule holds in every state of a pass that created
\* its own target, and for an injected target from the first setSize or
\* setResolutionScale call on; the target is then at least 1 x 1.
C2_SizingInvariantOnceSized ==
    (options.renderTarget = Undefined \/ resized) =>
        /\ IsClampedFloor(renderTarget.width, resolution.x, resolutionScale)
        /\ IsClampedFloor(renderTarget.height, resolution.y, resolutionScale)
        /\ renderTarget.width >= 1
        /\ renderTarget.height >= 1

\* An injected 512 x 256 target, resized by a scale change after setSize
C2_Witness ==
    /\ options.renderTarget = [width |-> 512, height |-> 256]
    /\ lastCall = "setResolutionScale"
    /\ resolution = [x |-> 800, y |-> 600]
    /\ resolutionScale = [num |-> 1, den |-> 4]
    /\ renderTarget = [width |-> 200, height |-> 150]

\* C3: after setSize(w, h) and a later setResolutionScale(s2) with s2 > 0,
\* the target has the dimensions a fresh pass constructed with
\* resolutionScale s2 has after setSize(w, h).
C3_ScaleChangeRederivesSize ==
    (lastCall = "setResolutionScale" /\ Positive(givenScale)
        /\ lastSetSize.width > 0) =>
        \A base \in PassBases, target \in InjectedTargets \cup {Undefined} :
            LET fresh == constructor([resolutionScale |-> givenScale,
                                      renderTarget |-> target], base)
            IN  renderTarget =
                    setSize(fresh, lastSetSize.width, lastSetSize.height).renderTarget

\* setSize(1920, 1080) then setResolutionScale(1.0): 1920 x 1080
C3_Witness ==
    /\ lastCall = "setResolutionScale"
    /\ lastSetSize = [width |-> 1920, height |-> 1080]
    /\ givenScale = [num |-> 2, den |-> 2]
    /\ renderTarget = [width |-> 1920, height |-> 1080]

C5_InvalidConstructionFails ==
    (options.resolutionScale # Undefined /\ ~Positive(options.resolutionScale)) =>
        (threw /\ lastCall = "constructor")

\* C6 as stated: a pass constructed with a positive scale keeps
\* resolutionScale > 0, because setResolutionScale(scale) with scale <= 0
\* raises an error instead of storing the value.
C6_ScaleStaysPositive ==
    (options.resolutionScale = Undefined \/ Positive(options.resolutionScale)) =>
        /\ Positive(resolutionScale)
        /\ (lastCall = "setResolutionScale" /\ ~Positive(givenScale)) => threw

\* C7: a setSize(w, h) call that repeats the setSize(w, h) call before it
\* leaves base resolution, scale and target dimensions as they were and
\* raises no error.
C7_SetSizeIdempotent ==
    [][repeated' =>
        /\ resolution' = resolution
        /\ resolutionScale' = resolutionScale
        /\ renderTarget' = renderTarget
        /\ ~threw']_vars

\* setSize(800, 600) twice on an injected 512 x 256 target at scale 0.25
C7_Witness ==
    /\ repeated
    /\ lastSetSize = [width |-> 800, height |-> 600]
    /\ options.renderTarget = [width |-> 512, height |-> 256]
    /\ renderTarget = [width |-> 200, height |-> 150]

\* C8: without options.resolutionScale the scale is 0.5, so setSize(800, 600)
\* on a pass constructed with default options gives a 400 x 300 target;
\* getResolutionScale() returns the scale given last and changes nothing.
C8_DefaultScaleAndGetter ==
    /\ [](/\ IsGivenScale(resolutionScale)
          /\ (givenScale = Undefined /\ lastSetSize = [width |-> 800, height |-> 600])
                => renderTarget = [width |-> 400, height |-> 300]
          /\ lastCall = "getResolutionScale" => IsGivenScale(returned))
    /\ [][lastCall' = "getResolutionScale" =>
            /\ resolution' = resolution
            /\ resolutionScale' = resolutionScale
            /\ renderTarget' = renderTarget
            /\ renderToScreen' = renderToScreen]_vars

\* Default options, setSize(800, 600), then getResolutionScale() = 0.5
C8_Witness ==
    /\ options = [resolutionScale |-> Undefined, renderTarget |-> Undefined]
    /\ givenScale = Undefined
    /\ lastSetSize = [width |-> 800, height |-> 600]
    /\ renderTarget = [width |-> 400, height |-> 300]
    /\ lastCall = "getResolutionScale"
    /\ returned = [num |-> 1, den |-> 2]

\* C9: needsSwap is false in every state of the pass.
C9_NeedsSwapFalse == needsSwap = FALSE

\* After setSize, setResolutionScale, a renderToScreen change and a render
C9_Witness ==
    /\ lastCall = "render"
    /\ resized
    /\ lastSetSize.width > 0
    /\ givenScale # options.resolutionScale
    /\ renderToScreen
    /\ surfaces["renderTarget"] > 0
    /\ needsSwap = FALSE

\* C10: the base resolution is (0, 0) after construction and afterwards the
\* arguments of the most recent setSize call; setResolutionScale leaves it
\* unchanged, and render leaves base resolution, scale and target
\* dimensions unchanged.
C10_BaseResolutionFrame ==
    /\ [](/\ lastCall = "constructor" => resolution = [x |-> 0, y |-> 0]
          /\ resolution = [x |-> lastSetSize.width, y |-> lastSetSize.height])
    /\ [][/\ lastCall' = "setResolutionScale" => resolution' = resolution
          /\ lastCall' = "render" =>
                /\ resolution' = resolution
                /\ resolutionScale' = resolutionScale
                /\ renderTarget' = renderTarget]_vars

\* setSize(800, 600), a scale change to 0.25, then a render
C10_Witness ==
    /\ lastCall = "render"
    /\ resolution = [x |-> 800, y |-> 600]
    /\ resolutionScale = [num |-> 1, den |-> 4]
    /\ givenScale = [num |-> 1, den |-> 4]
    /\ renderTarget = [width |-> 200, height |-> 150]

====
